---- MODULE Spec2Model ----
(***************************************************************************)
(* TaskBuddy: the dependency container (core/dependency_container.py) with *)
(* the classes it wires at startup (main.py): ITaskRepository,             *)
(* CsvTaskRepository, TaskManagerService.                                  *)
(*                                                                         *)
(* register is one step.  resolve is recursive in the source; here every   *)
(* pending call of resolve is one frame of `stack`, and the steps of the   *)
(* loop over the constructor parameters are the actions.  Exceptions are   *)
(* values in flight (`outcome`) that unwind the stack frame by frame.      *)
(***************************************************************************)
EXTENDS Integers, Sequences, FiniteSets, TLC

\* ------------------------------------------------------------------ bounds

\* Top-level resolve calls are accepted while fewer than this many objects
\* have been created (object identities are a counter).
MaxAllocated == 2

\* The most calls of resolve that can be pending, one inside the other: the
\* interpreter's recursion limit.
MaxDepth == 5

\* ------------------------------------------------------------- python values

\* inspect.Parameter.empty, as an annotation and as a default.
EmptyAnnotation == "<empty>"
EmptyDefault == [kind |-> "empty"]

NoneValue == [kind |-> "const", repr |-> "None"]

Param(name, kind, annotation, default) ==
    [name |-> name, kind |-> kind, annotation |-> annotation, default |-> default]

\* inspect.signature(object.__init__) is (self, /, *args, **kwargs): the
\* signature of every class that defines no __init__ of its own.
ObjectInit ==
    << Param("self", "POSITIONAL_ONLY", EmptyAnnotation, EmptyDefault),
       Param("args", "VAR_POSITIONAL", EmptyAnnotation, EmptyDefault),
       Param("kwargs", "VAR_KEYWORD", EmptyAnnotation, EmptyDefault) >>

SelfParam == Param("self", "POSITIONAL_OR_KEYWORD", EmptyAnnotation, EmptyDefault)

\* The five operations ITaskRepository declares abstract.
RepositoryOperations ==
    {"get_all_tasks", "add_task", "get_task_by_id", "update_task", "delete_task"}

\* A class as the container sees it:
\*   bases            every class it is a subclass of, itself included (issubclass)
\*   abstractmethods  __abstractmethods__ (inspect.isabstract: not empty)
\*   methods          the operations it declares or inherits
\*   init             inspect.signature(cls.__init__).parameters
\*   ctor             what __init__ does when called
Class(bases, abstractmethods, methods, init, ctor) ==
    [bases |-> bases, abstractmethods |-> abstractmethods, methods |-> methods,
     init |-> init, ctor |-> ctor]

ITaskRepository ==
    Class({"ITaskRepository"}, RepositoryOperations, RepositoryOperations,
          ObjectInit, "store")

CsvTaskRepository ==
    Class({"CsvTaskRepository", "ITaskRepository"}, {}, RepositoryOperations,
          << SelfParam,
             Param("file_path", "POSITIONAL_OR_KEYWORD", "str", NoneValue) >>,
          "csv")

TaskManagerService ==
    Class({"TaskManagerService"}, {},
          {"get_all_tasks", "get_task_by_id", "add_new_task",
           "mark_task_complete", "delete_task_by_id"},
          << SelfParam,
             Param("task_repository", "POSITIONAL_OR_KEYWORD", "ITaskRepository",
                   EmptyDefault) >>,
          "service")

\* The builtin str, the annotation of CsvTaskRepository's file_path.
StrClass == Class({"str"}, {}, {}, ObjectInit, "store")

\* Classes the container is exercised with besides the application's own.
\* A second full implementation of the repository contract.
InMemoryTaskRepository ==
    Class({"InMemoryTaskRepository", "ITaskRepository"}, {}, RepositoryOperations,
          << SelfParam >>, "store")

\* A subclass of the contract that leaves delete_task abstract.
PartialTaskRepository ==
    Class({"PartialTaskRepository", "ITaskRepository"}, {"delete_task"},
          RepositoryOperations, << SelfParam >>, "store")

\* A class outside the contract's hierarchy, with one of the five operations.
NotARepository ==
    Class({"NotARepository"}, {}, {"get_all_tasks"}, << SelfParam >>, "store")

\* class PlainObject: pass
PlainObject == Class({"PlainObject"}, {}, {}, ObjectInit, "store")

\* Full implementations whose __init__ raises.
FailingRepository ==
    Class({"FailingRepository", "ITaskRepository"}, {}, RepositoryOperations,
          << SelfParam >>, "ValueError")

BrokenRepository ==
    Class({"BrokenRepository", "ITaskRepository"}, {}, RepositoryOperations,
          << SelfParam >>, "OSError")

\* def __init__(self, task_repository: ITaskRepository = None)
OptionalRepositoryService ==
    Class({"OptionalRepositoryService"}, {}, {},
          << SelfParam,
             Param("task_repository", "POSITIONAL_OR_KEYWORD", "ITaskRepository",
                   NoneValue) >>,
          "store")

\* class CachedCsvTaskRepository(CsvTaskRepository): pass
CachedCsvTaskRepository ==
    Class({"CachedCsvTaskRepository", "CsvTaskRepository", "ITaskRepository"}, {},
          RepositoryOperations, CsvTaskRepository.init, "csv")

\* def __init__(self, name="tasks")
NamedStore ==
    Class({"NamedStore"}, {}, {},
          << SelfParam,
             Param("name", "POSITIONAL_OR_KEYWORD", EmptyAnnotation,
                   [kind |-> "const", repr |-> "'tasks'"]) >>,
          "store")

\* def __init__(self, task_repository)
UntypedService ==
    Class({"UntypedService"}, {}, {},
          << SelfParam,
             Param("task_repository", "POSITIONAL_OR_KEYWORD", EmptyAnnotation,
                   EmptyDefault) >>,
          "store")

\* def __init__(self, task_repository: ITaskRepository, store: InMemoryTaskRepository)
ReportService ==
    Class({"ReportService"}, {}, {},
          << SelfParam,
             Param("task_repository", "POSITIONAL_OR_KEYWORD", "ITaskRepository",
                   EmptyDefault),
             Param("store", "POSITIONAL_OR_KEYWORD", "InMemoryTaskRepository",
                   EmptyDefault) >>,
          "store")

\* The same constructor with its two parameters exchanged.
ReportServiceReordered ==
    Class({"ReportServiceReordered"}, {}, {},
          << SelfParam, ReportService.init[3], ReportService.init[2] >>, "store")

\* def __init__(self, source: ITaskRepository, target: PartialTaskRepository)
SyncService ==
    Class({"SyncService"}, {}, {},
          << SelfParam,
             Param("source", "POSITIONAL_OR_KEYWORD", "ITaskRepository", EmptyDefault),
             Param("target", "POSITIONAL_OR_KEYWORD", "PartialTaskRepository",
                   EmptyDefault) >>,
          "store")

\* The same constructor with its two parameters exchanged.
SyncServiceReordered ==
    Class({"SyncServiceReordered"}, {}, {},
          << SelfParam, SyncService.init[3], SyncService.init[2] >>, "store")

\* Two classes that need each other:
\*   class Chicken: def __init__(self, egg: Egg)
\*   class Egg:     def __init__(self, chicken: Chicken = None)
Chicken ==
    Class({"Chicken"}, {}, {},
          << SelfParam,
             Param("egg", "POSITIONAL_OR_KEYWORD", "Egg", EmptyDefault) >>,
          "store")

Egg ==
    Class({"Egg"}, {}, {},
          << SelfParam,
             Param("chicken", "POSITIONAL_OR_KEYWORD", "Chicken", NoneValue) >>,
          "store")

ClassTable ==
    [ITaskRepository |-> ITaskRepository,
     CsvTaskRepository |-> CsvTaskRepository,
     TaskManagerService |-> TaskManagerService,
     str |-> StrClass,
     InMemoryTaskRepository |-> InMemoryTaskRepository,
     PartialTaskRepository |-> PartialTaskRepository,
     NotARepository |-> NotARepository,
     PlainObject |-> PlainObject,
     FailingRepository |-> FailingRepository,
     BrokenRepository |-> BrokenRepository,
     OptionalRepositoryService |-> OptionalRepositoryService,
     CachedCsvTaskRepository |-> CachedCsvTaskRepository,
     NamedStore |-> NamedStore,
     UntypedService |-> UntypedService,
     ReportService |-> ReportService,
     ReportServiceReordered |-> ReportServiceReordered,
     SyncService |-> SyncService,
     SyncServiceReordered |-> SyncServiceReordered,
     Chicken |-> Chicken,
     Egg |-> Egg]

ClassNames == DOMAIN ClassTable

\* issubclass(c, base)
issubclass(c, base) == base \in ClassTable[c].bases

\* inspect.isabstract(c)
isabstract(c) == ClassTable[c].abstractmethods # {}

\* The concrete type implements every operation the contract declares.
Satisfies(c, contract) ==
    ClassTable[contract].methods \subseteq
        (ClassTable[c].methods \ ClassTable[c].abstractmethods)

\* ------------------------------------------------------------------- paths

\* File-system paths are sequences of components.
dirname(path) == SubSeq(path, 1, Len(path) - 1)

\* The project root, the directory that holds main.py and is on sys.path.
ProjectRoot == << "home", "user", "taskbuddy_project" >>

\* os.path.abspath(__file__) within data/csv_task_repository.py.
CsvRepositoryModuleFile == ProjectRoot \o << "data", "csv_task_repository.py" >>

\* The sample file: data/csv/sample_data.csv relative to the project root.
SampleDataFile == ProjectRoot \o << "data", "csv", "sample_data.csv" >>

\* CsvTaskRepository.__init__'s choice of self.file_path.
DefaultFilePath ==
    LET current_dir == dirname(CsvRepositoryModuleFile)
        project_root == dirname(dirname(current_dir))
    IN  project_root \o << "data", "csv", "sample_data.csv" >>

\* ------------------------------------------------------------- exceptions

Exception(type, msg) == [type |-> type, msg |-> msg]

NoOutcome == [kind |-> "none"]
Return(value) == [kind |-> "return", value |-> value]
Raise(exc) == [kind |-> "raise", exc |-> exc]

\* f"No concrete implementation registered for abstraction: {abstraction.__name__}"
UnresolvedMsg(abstraction) ==
    << "No concrete implementation registered for abstraction", abstraction >>

\* f"Cannot resolve dependency '{name}' for '{concrete_class.__name__}': {e}"
CannotResolveMsg(name, concrete_class, e) ==
    << "Cannot resolve dependency", name, "for", concrete_class >> \o e.msg

\* f"Cannot resolve dependency '{name}' for '{...}': Missing type hint or default value."
MissingHintMsg(name, concrete_class) ==
    << "Cannot resolve dependency", name, "for", concrete_class,
       "Missing type hint or default value" >>

\* except ValueError
IsValueError(exc) == exc.type = "ValueError"

\* ---------------------------------------------------------------- register

\* Import paths are sequences of dotted components; the modules that can be
\* imported, with the classes found in each (a module also holds the names
\* it imports: csv_task_repository imports ITaskRepository).
Modules ==
    (<< "data", "csv_task_repository" >> :> {"CsvTaskRepository", "ITaskRepository"})
    @@ (<< "fixtures" >> :>
            {"InMemoryTaskRepository", "PartialTaskRepository", "NotARepository",
             "FailingRepository", "BrokenRepository", "CachedCsvTaskRepository"})

\* The try block of register: rsplit('.', 1), import_module, getattr.
LoadClass(path) ==
    IF Len(path) < 2
    THEN [ok |-> FALSE, error |-> "ValueError"]
    ELSE LET module_path == SubSeq(path, 1, Len(path) - 1)
             class_name == path[Len(path)]
         IN  IF module_path \notin DOMAIN Modules
             THEN [ok |-> FALSE, error |-> "ImportError"]
             ELSE IF class_name \notin Modules[module_path]
             THEN [ok |-> FALSE, error |-> "AttributeError"]
             ELSE [ok |-> TRUE, cls |-> class_name]

\* The check register makes of the loaded class against the abstraction.
Implements(concrete_implementation, abstraction) ==
    issubclass(concrete_implementation, abstraction)

\* Variant: an abstraction that has an entry keeps it (setdefault).
StoreIfAbsent(regs, abstraction, concrete_implementation) ==
    [c \in (DOMAIN regs) \cup {abstraction} |->
        IF c \in DOMAIN regs THEN regs[c] ELSE concrete_implementation]

\* self._registrations[abstraction] = concrete_implementation
StoreRegistration(regs, abstraction, concrete_implementation) ==
    [c \in (DOMAIN regs) \cup {abstraction} |->
        IF c = abstraction THEN concrete_implementation ELSE regs[c]]

\* Variant: the loaded class is stored before it is checked.
register_storing_first(regs, abstraction, path) ==
    LET loaded == LoadClass(path)
    IN  IF ~loaded.ok
        THEN [registrations |-> regs,
              outcome |-> Raise(Exception("ValueError",
                  << "Failed to load concrete implementation" >> \o path
                      \o << loaded.error >>))]
        ELSE IF ~Implements(loaded.cls, abstraction)
        THEN [registrations |-> StoreRegistration(regs, abstraction, loaded.cls),
              outcome |-> Raise(Exception("ValueError",
                  << "Concrete implementation", loaded.cls,
                     "does not implement abstraction", abstraction >>))]
        ELSE [registrations |-> StoreRegistration(regs, abstraction, loaded.cls),
              outcome |-> Return(NoneValue)]

\* register(abstraction, concrete_implementation_path): the registrations
\* after the call, and what the call returned or raised.
register(regs, abstraction, path) ==
    LET loaded == LoadClass(path)
    IN  IF ~loaded.ok
        THEN [registrations |-> regs,
              outcome |-> Raise(Exception("ValueError",
                  << "Failed to load concrete implementation" >> \o path
                      \o << loaded.error >>))]
        ELSE IF ~Implements(loaded.cls, abstraction)
        THEN [registrations |-> regs,
              outcome |-> Raise(Exception("ValueError",
                  << "Concrete implementation", loaded.cls,
                     "does not implement abstraction", abstraction >>))]
        ELSE [registrations |-> StoreRegistration(regs, abstraction, loaded.cls),
              outcome |-> Return(NoneValue)]

\* ----------------------------------------------------------------- resolve

\* Variant: the map is consulted for abstract types only.
LookupAbstractOnly(regs, abstraction) ==
    IF abstraction \in DOMAIN regs /\ isabstract(abstraction)
    THEN regs[abstraction]
    ELSE abstraction

\* Variant: the lookup is repeated on what it finds.
RECURSIVE LookupTransitive(_, _)
LookupTransitive(regs, abstraction) ==
    IF abstraction \in DOMAIN regs /\ regs[abstraction] # abstraction
    THEN LookupTransitive(regs, regs[abstraction])
    ELSE abstraction

\* self._registrations.get(abstraction, abstraction)
Lookup(regs, abstraction) ==
    IF abstraction \in DOMAIN regs THEN regs[abstraction] ELSE abstraction

\* One pending call of resolve: the loop is at parameter i of the
\* constructor; awaiting: it is inside the recursive call of line 89.
Frame(abstraction, concrete_class) ==
    [abstraction |-> abstraction, concrete_class |-> concrete_class, i |-> 1,
     dependencies |-> << >>, awaiting |-> FALSE]

\* Variant: the abstract check is left out.
EnterResolveUnchecked(regs, stk, abstraction) ==
    [stack |-> Append(stk, Frame(abstraction, Lookup(regs, abstraction))),
     outcome |-> NoOutcome]

\* The head of resolve: the lookup and the abstract check.
EnterResolve(regs, stk, abstraction) ==
    LET concrete_class == Lookup(regs, abstraction)
    IN  IF isabstract(concrete_class)
        THEN [stack |-> stk,
              outcome |-> Raise(Exception("ValueError", UnresolvedMsg(abstraction)))]
        ELSE [stack |-> Append(stk, Frame(abstraction, concrete_class)),
              outcome |-> NoOutcome]

\* Variant: a type whose resolution is already pending is refused.
RecursiveCallDetectingCycles(regs, stk, abstraction) ==
    IF \E k \in 1..Len(stk) : stk[k].abstraction = abstraction
    THEN [stack |-> stk,
          outcome |-> Raise(Exception("ValueError", << "Cyclic dependency", abstraction >>))]
    ELSE EnterResolve(regs, stk, abstraction)

\* self.resolve(param.annotation) from within resolve: one more pending
\* call, unless the interpreter's recursion limit is reached.
RecursiveCall(regs, stk, abstraction) ==
    IF Len(stk) >= MaxDepth
    THEN [stack |-> stk,
          outcome |-> Raise(Exception("RecursionError",
                                << "maximum recursion depth exceeded" >>))]
    ELSE EnterResolve(regs, stk, abstraction)

\* dependencies[name] = value (a dict keeps insertion order)
SetDependency(dependencies, name, value) == Append(dependencies, << name, value >>)

\* The condition of the first branch of the loop: the parameter is resolved
\* through the container.
IsInjected(param) ==
    param.kind = "POSITIONAL_OR_KEYWORD" /\ param.annotation # EmptyAnnotation

\* Variant: a parameter without a default is bound to the empty marker.
HasDefaultOrEmpty(param) == TRUE

\* param.default is not inspect.Parameter.empty
HasDefault(param) == param.default # EmptyDefault

\* The value bound to `name` in a dependencies mapping.
Dependency(dependencies, name) ==
    LET k == CHOOSE k \in 1..Len(dependencies) : dependencies[k][1] = name
    IN  dependencies[k][2]

Instance(id, cls, attrs) == [kind |-> "instance", id |-> id, cls |-> cls, attrs |-> attrs]

PathValue(path) == [kind |-> "path", parts |-> path]

\* Python truthiness of a value: None is false, an object is true.
Truthy(value) == value # NoneValue

\* isinstance(value, cls)
isinstance(value, cls) == value.kind = "instance" /\ issubclass(value.cls, cls)

\* Variant: the object created last is handed out again.
ReusedId(count) == IF count = 0 THEN 1 ELSE count

\* The identity of the next object created.
FreshId(count) == count + 1

\* concrete_class(**dependencies): what the constructor returns or raises.
Construct(concrete_class, dependencies, id) ==
    LET ctor == ClassTable[concrete_class].ctor
    IN  CASE ctor = "csv" ->
               LET file_path == Dependency(dependencies, "file_path")
               IN  Return(Instance(id, concrete_class,
                       << << "file_path",
                             IF Truthy(file_path) THEN file_path
                             ELSE PathValue(DefaultFilePath) >> >>))
          [] ctor = "service" ->
               LET task_repository == Dependency(dependencies, "task_repository")
               IN  IF ~isinstance(task_repository, "ITaskRepository")
                   THEN Raise(Exception("TypeError",
                            << "task_repository must be an instance of ITaskRepository" >>))
                   ELSE Return(Instance(id, concrete_class,
                            << << "_task_repository", task_repository >> >>))
          [] ctor = "store" -> Return(Instance(id, concrete_class, dependencies))
          [] OTHER -> Raise(Exception(ctor, << "constructor failed", concrete_class >>))

\* ------------------------------------------------------------------- state

VARIABLES
    registrations,  \* self._registrations: abstraction -> concrete class
    registered,     \* history: per abstraction, the class of the last register that succeeded
    stack,          \* the pending calls of resolve, the outermost first
    outcome,        \* what the last call returned or raised (in flight while stack is not empty)
    lastCall,       \* the last call made on the container by its client
    overwritten,    \* history: per abstraction, whether a register replaced another class
    allocated,      \* how many objects have been created
    allocAtCall,    \* allocated when the last call of the client began
    constructed,    \* the constructors invoked since then, with what each returned or raised
    warnings,       \* the warnings logged since then: << parameter, class >>
    app,            \* the process started by main.py: where run_application is, what it did
    repo            \* a CsvTaskRepository over one file, with its last call and the result

vars == << registrations, registered, overwritten, stack, outcome, lastCall,
           allocated, allocAtCall, constructed, warnings, app, repo >>

\* The abstractions and the import paths register is called with, and the
\* types resolve is asked for.
Abstractions == {"ITaskRepository", "CsvTaskRepository"}

ImportPaths ==
    { << "data", "csv_task_repository", "CsvTaskRepository" >>,
      << "data", "csv_task_repository", "ITaskRepository" >>,
      << "data", "db_task_repository", "DbTaskRepository" >>,
      << "data", "csv_task_repository", "DbTaskRepository" >>,
      << "CsvTaskRepository" >>,
      << "fixtures", "InMemoryTaskRepository" >>,
      << "fixtures", "PartialTaskRepository" >>,
      << "fixtures", "NotARepository" >>,
      << "fixtures", "FailingRepository" >>,
      << "fixtures", "BrokenRepository" >>,
      << "fixtures", "CachedCsvTaskRepository" >> }

Unregistered == "<unregistered>"

\* No process has been started; no repository is under observation.
NoProcess == [pc |-> "none"]
NoRepository == [kind |-> "none"]

\* DependencyContainer(): the registrations are empty.
EmptyContainer ==
    /\ registrations = [c \in {} |-> Unregistered]
    /\ registered = [c \in Abstractions |-> Unregistered]
    /\ overwritten = [c \in Abstractions |-> FALSE]
    /\ stack = << >>
    /\ outcome = NoOutcome
    /\ lastCall = [op |-> "none", abstraction |-> "", path |-> << >>]
    /\ allocated = 0
    /\ allocAtCall = 0
    /\ constructed = << >>
    /\ warnings = << >>

Init ==
    /\ EmptyContainer
    /\ app = NoProcess
    /\ repo = NoRepository

Idle == stack = << >>

Top == stack[Len(stack)]

Pop(stk) == SubSeq(stk, 1, Len(stk) - 1)

ReplaceTop(stk, frame) == [stk EXCEPT ![Len(stk)] = frame]

\* Variant: the parameters are walked from the last to the first.
constructor_params_reversed(frame) ==
    LET params == ClassTable[frame.concrete_class].init
    IN  [k \in 1..Len(params) |-> params[Len(params) + 1 - k]]

\* inspect.signature(concrete_class.__init__).parameters, in declared order
constructor_params(frame) == ClassTable[frame.concrete_class].init

\* ----------------------------------------------------------------- actions

\* The client calls register.
Register(abstraction, path) ==
    /\ Idle
    /\ LET r == register(registrations, abstraction, path)
       IN  /\ registrations' = r.registrations
           /\ outcome' = r.outcome
           /\ registered' =
                IF r.outcome.kind = "return"
                THEN [registered EXCEPT ![abstraction] = LoadClass(path).cls]
                ELSE registered
           /\ overwritten' =
                IF /\ r.outcome.kind = "return"
                   /\ registered[abstraction] \notin {Unregistered, LoadClass(path).cls}
                THEN [overwritten EXCEPT ![abstraction] = TRUE]
                ELSE overwritten
    /\ lastCall' = [op |-> "register", abstraction |-> abstraction, path |-> path]
    /\ allocAtCall' = allocated
    /\ constructed' = << >>
    /\ warnings' = << >>
    /\ UNCHANGED << stack, allocated, app, repo >>

\* The client calls resolve: the head of the outermost call.
Resolve(abstraction) ==
    /\ Idle
    /\ allocated < MaxAllocated
    /\ LET r == EnterResolve(registrations, << >>, abstraction)
       IN  /\ stack' = r.stack
           /\ outcome' = r.outcome
    /\ lastCall' = [op |-> "resolve", abstraction |-> abstraction, path |-> << >>]
    /\ allocAtCall' = allocated
    /\ constructed' = << >>
    /\ warnings' = << >>
    /\ UNCHANGED << registrations, registered, overwritten, allocated, app, repo >>

\* One pass of the loop over the constructor parameters, up to the
\* recursive call when the parameter is resolved through the container.
ResolveParameter ==
    /\ ~Idle
    /\ ~Top.awaiting
    /\ Top.i <= Len(constructor_params(Top))
    /\ LET param == constructor_params(Top)[Top.i]
       IN  IF param.name = "self"
           THEN /\ stack' = ReplaceTop(stack, [Top EXCEPT !.i = @ + 1])
                /\ UNCHANGED outcome
           ELSE IF IsInjected(param)
           THEN LET r == RecursiveCall(registrations,
                             ReplaceTop(stack, [Top EXCEPT !.awaiting = TRUE]),
                             param.annotation)
                IN  /\ stack' = r.stack
                    /\ outcome' = r.outcome
           ELSE IF HasDefault(param)
           THEN /\ stack' = ReplaceTop(stack,
                       [Top EXCEPT !.i = @ + 1,
                                   !.dependencies = SetDependency(@, param.name, param.default)])
                /\ UNCHANGED outcome
           ELSE /\ stack' = Pop(stack)
                /\ outcome' = Raise(Exception("ValueError",
                                  MissingHintMsg(param.name, Top.concrete_class)))
    /\ UNCHANGED << registrations, registered, overwritten, lastCall, allocated, allocAtCall,
                    constructed, warnings, app, repo >>

\* The recursive call returned: dependencies[name] = self.resolve(...).
DependencyResolved ==
    /\ ~Idle
    /\ Top.awaiting
    /\ outcome.kind = "return"
    /\ LET param == constructor_params(Top)[Top.i]
       IN  stack' = ReplaceTop(stack,
               [Top EXCEPT !.i = @ + 1, !.awaiting = FALSE,
                           !.dependencies = SetDependency(@, param.name, outcome.value)])
    /\ outcome' = NoOutcome
    /\ UNCHANGED << registrations, registered, overwritten, lastCall, allocated, allocAtCall,
                    constructed, warnings, app, repo >>

\* Variant: the error of the dependency is re-raised as it came.
HandleValueErrorBare(frame, param, e) ==
    IF ~HasDefault(param)
    THEN [raised |-> TRUE, exc |-> e, logged |-> << >>]
    ELSE [raised |-> FALSE,
          frame |-> [frame EXCEPT !.i = @ + 1, !.awaiting = FALSE,
                         !.dependencies = SetDependency(@, param.name, param.default)],
          logged |-> << << param.name, frame.concrete_class >> >>]

\* Variant: the default is substituted without a word in the log.
HandleValueErrorSilent(frame, param, e) ==
    IF ~HasDefault(param)
    THEN [raised |-> TRUE,
          exc |-> Exception("ValueError",
                      CannotResolveMsg(param.name, frame.concrete_class, e)),
          logged |-> << >>]
    ELSE [raised |-> FALSE,
          frame |-> [frame EXCEPT !.i = @ + 1, !.awaiting = FALSE,
                         !.dependencies = SetDependency(@, param.name, param.default)],
          logged |-> << >>]

\* What the except clause does with a ValueError out of the recursive call.
HandleValueError(frame, param, e) ==
    IF ~HasDefault(param)
    THEN [raised |-> TRUE,
          exc |-> Exception("ValueError",
                      CannotResolveMsg(param.name, frame.concrete_class, e)),
          logged |-> << >>]
    ELSE [raised |-> FALSE,
          frame |-> [frame EXCEPT !.i = @ + 1, !.awaiting = FALSE,
                         !.dependencies = SetDependency(@, param.name, param.default)],
          logged |-> << << param.name, frame.concrete_class >> >>]

\* The recursive call raised a ValueError: the except clause.
DependencyFailed ==
    /\ ~Idle
    /\ Top.awaiting
    /\ outcome.kind = "raise"
    /\ IsValueError(outcome.exc)
    /\ LET h == HandleValueError(Top, constructor_params(Top)[Top.i], outcome.exc)
       IN  /\ IF h.raised
              THEN /\ stack' = Pop(stack)
                   /\ outcome' = Raise(h.exc)
              ELSE /\ stack' = ReplaceTop(stack, h.frame)
                   /\ outcome' = NoOutcome
           /\ warnings' = warnings \o h.logged
    /\ UNCHANGED << registrations, registered, overwritten, lastCall, allocated, allocAtCall,
                    constructed, app, repo >>

\* The recursive call raised something the except clause does not catch.
PropagateError ==
    /\ ~Idle
    /\ Top.awaiting
    /\ outcome.kind = "raise"
    /\ ~IsValueError(outcome.exc)
    /\ stack' = Pop(stack)
    /\ UNCHANGED << registrations, registered, overwritten, outcome, lastCall, allocated,
                    allocAtCall, constructed, warnings, app, repo >>

\* The loop is over: return concrete_class(**dependencies).
Instantiate ==
    /\ ~Idle
    /\ ~Top.awaiting
    /\ Top.i > Len(constructor_params(Top))
    /\ LET r == Construct(Top.concrete_class, Top.dependencies, FreshId(allocated))
       IN  /\ outcome' = r
           /\ constructed' = Append(constructed,
                                 [cls |-> Top.concrete_class, result |-> r])
           /\ allocated' = IF r.kind = "return" THEN allocated + 1 ELSE allocated
    /\ stack' = Pop(stack)
    /\ UNCHANGED << registrations, registered, overwritten, lastCall, allocAtCall, warnings,
                    app, repo >>

Next ==
    \/ \E abstraction \in Abstractions, path \in ImportPaths :
           Register(abstraction, path)
    \/ \E abstraction \in ClassNames : Resolve(abstraction)
    \/ ResolveParameter
    \/ DependencyResolved
    \/ DependencyFailed
    \/ PropagateError
    \/ Instantiate

Spec == Init /\ [][Next]_vars

\* A call of resolve runs on until it returns or raises.
ResolveStep ==
    \/ ResolveParameter
    \/ DependencyResolved
    \/ DependencyFailed
    \/ PropagateError
    \/ Instantiate

FairSpec == Spec /\ WF_vars(ResolveStep)

\* ------------------------------------------------------------------ main.py

\* The files that may exist when the process starts.
ExistingFiles == { {}, {SampleDataFile}, {DefaultFilePath} }

\* The exception classes of the model; each derives from Exception.
ExceptionClasses ==
    {"ValueError", "TypeError", "OSError", "RecursionError", "FileNotFoundError",
     "NotImplementedError"}

\* Variant: except ValueError
CaughtAtStartupValueErrorOnly(exc) == exc.type = "ValueError"

\* except Exception as e (around the resolve of run_application)
CaughtAtStartup(exc) == exc.type \in ExceptionClasses

\* run_application is entered with a new, empty container.
AppInit ==
    /\ EmptyContainer
    /\ app \in {[pc |-> "start", files |-> files, exited |-> FALSE, exit_status |-> 0,
                 critical |-> << >>, service_calls |-> << >>, loaded |-> "none"] :
                    files \in ExistingFiles}
    /\ repo = NoRepository

\* configure_dependencies: the one register call of the wiring.  The
\* implementation it names is the line a deployment edits, so it is an input.
\* The call is outside the try block: what register raises ends the process
\* as an uncaught exception.
ConfigureDependencies(path) ==
    /\ app.pc = "start"
    /\ LET r == register(registrations, "ITaskRepository", path)
       IN  /\ registrations' = r.registrations
           /\ outcome' = r.outcome
           /\ registered' =
                IF r.outcome.kind = "return"
                THEN [registered EXCEPT !["ITaskRepository"] = LoadClass(path).cls]
                ELSE registered
           /\ app' = IF r.outcome.kind = "raise"
                     THEN [app EXCEPT !.pc = "crashed", !.exited = TRUE, !.exit_status = 1]
                     ELSE [app EXCEPT !.pc = "configured"]
    /\ lastCall' = [op |-> "register", abstraction |-> "ITaskRepository", path |-> path]
    /\ UNCHANGED << overwritten, stack, allocated, allocAtCall, constructed, warnings, repo >>

\* task_service = container.resolve(TaskManagerService): the call is made.
ResolveService ==
    /\ app.pc = "configured"
    /\ LET r == EnterResolve(registrations, << >>, "TaskManagerService")
       IN  /\ stack' = r.stack
           /\ outcome' = r.outcome
    /\ lastCall' = [op |-> "resolve", abstraction |-> "TaskManagerService", path |-> << >>]
    /\ app' = [app EXCEPT !.pc = "resolving"]
    /\ UNCHANGED << registrations, registered, overwritten, allocated, allocAtCall,
                    constructed, warnings, repo >>

\* The call is over: the rest of the try block, or the except clause
\* (logger.critical, print, sys.exit(1)).
ServiceResolved ==
    /\ app.pc = "resolving"
    /\ Idle
    /\ outcome.kind # "none"
    /\ app' = IF outcome.kind = "return"
              THEN [app EXCEPT !.pc = "resolved"]
              ELSE IF CaughtAtStartup(outcome.exc)
              THEN [app EXCEPT !.pc = "exited", !.exited = TRUE, !.exit_status = 1,
                               !.critical = Append(@, outcome.exc)]
              ELSE [app EXCEPT !.pc = "crashed", !.exited = TRUE, !.exit_status = 1]
    /\ UNCHANGED << registrations, registered, overwritten, stack, outcome, lastCall,
                    allocated, allocAtCall, constructed, warnings, repo >>

\* What task_service.get_all_tasks() hands back: the tasks of the file of a
\* CSV repository when that file exists; the service turns every error of
\* the repository into an empty list.
TasksLoaded(task_service, files) ==
    LET task_repository == Dependency(task_service.attrs, "_task_repository")
    IN  IF /\ ClassTable[task_repository.cls].ctor = "csv"
           /\ Dependency(task_repository.attrs, "file_path").parts \in files
        THEN "tasks"
        ELSE "empty"

\* The application logic, and the return of run_application.
ApplicationLogic ==
    /\ app.pc = "resolved"
    /\ app' = [app EXCEPT !.pc = "finished", !.exited = TRUE, !.exit_status = 0,
                          !.service_calls = Append(@, "get_all_tasks"),
                          !.loaded = TasksLoaded(outcome.value, app.files)]
    /\ UNCHANGED << registrations, registered, overwritten, stack, outcome, lastCall,
                    allocated, allocAtCall, constructed, warnings, repo >>

AppNext ==
    \/ \E path \in ImportPaths : ConfigureDependencies(path)
    \/ ResolveService
    \/ ResolveParameter
    \/ DependencyResolved
    \/ DependencyFailed
    \/ PropagateError
    \/ Instantiate
    \/ ServiceResolved
    \/ ApplicationLogic

AppSpec == AppInit /\ [][AppNext]_vars

\* ------------------------------------------------- data/csv_task_repository.py

\* The most data rows a file holds.
MaxRows == 2

\* A cell a row does not have: csv.DictReader fills it with None.
NoneCell == "<None>"

\* The texts found in the id, title and status columns.
IdCells == {"a", " A ", "b", "zz", " "}
TitleCells == {"t", "u"}
StatusCells == {"pending", "bogus", NoneCell}

\* str.strip()
strip(text) ==
    CASE text = " A " -> "A"
      [] text = " " -> ""
      [] OTHER -> text

\* str.upper()
upper(text) ==
    CASE text = "pending" -> "PENDING"
      [] text = "bogus" -> "BOGUS"
      [] OTHER -> text

\* uuid.UUID(text): hexadecimal digits, read without regard to case; any
\* other text is a ValueError.
UUIDs == ("a" :> "uuid-a") @@ ("A" :> "uuid-a") @@ ("b" :> "uuid-b")

\* The names of the members of TaskStatus: TaskStatus[name] is a KeyError
\* for any other name.
TaskStatus == {"PENDING", "COMPLETE", "OVERDUE"}

\* Task(title=..., status=..., task_id=...)
Task(title, status, task_id) == [id |-> task_id, title |-> title, status |-> status]

Row(id, title, status) == [id |-> id, title |-> title, status |-> status]

Rows == {Row(id, title, status) : id \in IdCells, title \in TitleCells,
                                  status \in StatusCells}

RECURSIVE RowsUpTo(_)
RowsUpTo(n) ==
    IF n = 0 THEN {<< >>}
    ELSE LET shorter == RowsUpTo(n - 1)
         IN  shorter \cup {Append(rows, row) : rows \in shorter, row \in Rows}

\* The file at self.file_path: absent, empty, or a header line with rows.
CsvFile(exists, fieldnames, rows) ==
    [exists |-> exists, fieldnames |-> fieldnames, rows |-> rows]

Files ==
    {CsvFile(FALSE, {}, << >>), CsvFile(TRUE, {}, << >>),
     CsvFile(TRUE, {"id", "title"}, << >>)}
    \cup {CsvFile(TRUE, {"id", "title", "status"}, rows) : rows \in RowsUpTo(MaxRows)}

\* The body of the loop over the rows: the task of a row, or that the row
\* is skipped (a missing or empty field, an id that is no UUID, a status
\* that is no member of TaskStatus).
ParseRow(row) ==
    IF \E field \in {"id", "title", "status"} : row[field] = NoneCell
    THEN [ok |-> FALSE]
    ELSE LET task_id_str == strip(row.id)
             title_str == strip(row.title)
             status_raw_str == strip(row.status)
         IN  IF task_id_str = "" \/ title_str = "" \/ status_raw_str = ""
             THEN [ok |-> FALSE]
             ELSE IF task_id_str \notin DOMAIN UUIDs
             THEN [ok |-> FALSE]
             ELSE IF upper(status_raw_str) \notin TaskStatus
             THEN [ok |-> FALSE]
             ELSE [ok |-> TRUE,
                   task |-> Task(title_str, upper(status_raw_str), UUIDs[task_id_str])]

\* get_all_tasks(): the tasks of the rows that parse, in file order.
get_all_tasks(file) ==
    IF ~file.exists
    THEN Raise(Exception("FileNotFoundError", << "CSV file not found" >>))
    ELSE IF file.fieldnames = {}
    THEN Return(<< >>)
    ELSE IF ~({"id", "title", "status"} \subseteq file.fieldnames)
    THEN Return(<< >>)
    ELSE LET parsed == SelectSeq(file.rows, LAMBDA row : ParseRow(row).ok)
         IN  Return([k \in 1..Len(parsed) |-> ParseRow(parsed[k]).task])

\* Variant: the last task with the id is the one returned.
get_task_by_id_last(file, task_id) ==
    LET all_tasks == get_all_tasks(file)
    IN  IF all_tasks.kind = "raise" THEN all_tasks
        ELSE LET found == {k \in 1..Len(all_tasks.value) : all_tasks.value[k].id = task_id}
             IN  IF found = {}
                 THEN Raise(Exception("ValueError", << "Task with ID", task_id, "not found" >>))
                 ELSE Return(all_tasks.value[CHOOSE k \in found : \A j \in found : j <= k])

\* get_task_by_id(task_id)
get_task_by_id(file, task_id) ==
    LET all_tasks == get_all_tasks(file)
    IN  IF all_tasks.kind = "raise" THEN all_tasks
        ELSE LET found == {k \in 1..Len(all_tasks.value) : all_tasks.value[k].id = task_id}
             IN  IF found = {}
                 THEN Raise(Exception("ValueError", << "Task with ID", task_id, "not found" >>))
                 ELSE Return(all_tasks.value[CHOOSE k \in found : \A j \in found : k <= j])

\* Variant: the task is written to the file as a new last row.
add_task_appending(file, task) ==
    [file |-> [file EXCEPT !.rows =
                  Append(@, Row(CHOOSE text \in DOMAIN UUIDs : UUIDs[text] = task.id,
                                task.title, task.status))],
     outcome |-> Return(NoneValue)]

\* add_task(task): the file after the call, and what the call raised.
add_task(file, task) ==
    [file |-> file,
     outcome |-> Raise(Exception("NotImplementedError", << "add_task is not implemented" >>))]

\* update_task(task)
update_task(file, task) ==
    [file |-> file,
     outcome |-> Raise(Exception("NotImplementedError", << "update_task is not implemented" >>))]

\* delete_task(task_id)
delete_task(file, task_id) ==
    [file |-> file,
     outcome |-> Raise(Exception("NotImplementedError", << "delete_task is not implemented" >>))]

\* The ids and the tasks the repository is called with.
TaskIds == {"uuid-a", "uuid-b", "uuid-c"}
Tasks == {Task("t", "PENDING", "uuid-a"), Task("new", "COMPLETE", "uuid-b")}

\* A repository over one of the files; no call made yet.
RepoInit ==
    /\ EmptyContainer
    /\ app = NoProcess
    /\ repo \in {[kind |-> "csv", file |-> file, initial |-> file,
                  call |-> [op |-> "none"], result |-> NoOutcome] : file \in Files}

GetAllTasks ==
    /\ repo' = [repo EXCEPT !.call = [op |-> "get_all_tasks"],
                            !.result = get_all_tasks(repo.file)]
    /\ UNCHANGED << registrations, registered, overwritten, stack, outcome, lastCall,
                    allocated, allocAtCall, constructed, warnings, app >>

GetTaskById(task_id) ==
    /\ repo' = [repo EXCEPT !.call = [op |-> "get_task_by_id", task_id |-> task_id],
                            !.result = get_task_by_id(repo.file, task_id)]
    /\ UNCHANGED << registrations, registered, overwritten, stack, outcome, lastCall,
                    allocated, allocAtCall, constructed, warnings, app >>

AddTask(task) ==
    /\ LET r == add_task(repo.file, task)
       IN  repo' = [repo EXCEPT !.call = [op |-> "add_task", task |-> task],
                                !.file = r.file, !.result = r.outcome]
    /\ UNCHANGED << registrations, registered, overwritten, stack, outcome, lastCall,
                    allocated, allocAtCall, constructed, warnings, app >>

UpdateTask(task) ==
    /\ LET r == update_task(repo.file, task)
       IN  repo' = [repo EXCEPT !.call = [op |-> "update_task", task |-> task],
                                !.file = r.file, !.result = r.outcome]
    /\ UNCHANGED << registrations, registered, overwritten, stack, outcome, lastCall,
                    allocated, allocAtCall, constructed, warnings, app >>

DeleteTask(task_id) ==
    /\ LET r == delete_task(repo.file, task_id)
       IN  repo' = [repo EXCEPT !.call = [op |-> "delete_task", task_id |-> task_id],
                                !.file = r.file, !.result = r.outcome]
    /\ UNCHANGED << registrations, registered, overwritten, stack, outcome, lastCall,
                    allocated, allocAtCall, constructed, warnings, app >>

RepoNext ==
    \/ GetAllTasks
    \/ \E task_id \in TaskIds : GetTaskById(task_id)
    \/ \E task \in Tasks : AddTask(task)
    \/ \E task \in Tasks : UpdateTask(task)
    \/ \E task_id \in TaskIds : DeleteTask(task_id)

RepoSpec == RepoInit /\ [][RepoNext]_vars

\* ------------------------------------------------------------------ claims

\* The last call of the client was resolve and it has returned or raised.
ResolveDone == lastCall.op = "resolve" /\ Idle /\ outcome.kind # "none"

Returned == ResolveDone /\ outcome.kind = "return"

Raised == ResolveDone /\ outcome.kind = "raise"

\* The identities of the instance `value` and of every instance it holds.
RECURSIVE InstanceIds(_)
InstanceIds(value) ==
    IF value.kind = "instance"
    THEN {value.id} \cup
         UNION { InstanceIds(value.attrs[k][2]) : k \in 1..Len(value.attrs) }
    ELSE {}

\* The identities injected so far into a pending call.
InjectedIds(frame) ==
    UNION { InstanceIds(frame.dependencies[k][2]) : k \in 1..Len(frame.dependencies) }

\* The classes whose constructor was invoked during the last resolve.
ConstructedClasses == { constructed[k].cls : k \in 1..Len(constructed) }

\* C1: once register(C, T) has succeeded, and until the next register for C,
\* a resolve(C) constructs T and what it returns is an instance of T.
C1_ResolveReturnsRegisteredType ==
    \A C \in Abstractions :
        (lastCall.op = "resolve" /\ lastCall.abstraction = C
            /\ registered[C] # Unregistered) =>
            /\ ~Idle => stack[1].concrete_class = registered[C]
            /\ Returned =>
                 /\ outcome.value.kind = "instance"
                 /\ outcome.value.cls = registered[C]

C1_Witness ==
    /\ Returned
    /\ lastCall.abstraction = "CsvTaskRepository"
    /\ registered["CsvTaskRepository"] = "CachedCsvTaskRepository"
    /\ outcome.value.cls = "CachedCsvTaskRepository"

\* C2: every object returned by or injected during a resolve call was created
\* during that call, the objects created during one call are all different,
\* and the container keeps classes only, never instances.
C2_FreshInstances ==
    /\ \A k \in 1..Len(stack) :
           InjectedIds(stack[k]) \subseteq (allocAtCall + 1)..allocated
    /\ Returned => InstanceIds(outcome.value) \subseteq (allocAtCall + 1)..allocated
    /\ \A j, k \in 1..Len(constructed) :
           (j # k /\ constructed[j].result.kind = "return"
                  /\ constructed[k].result.kind = "return") =>
               constructed[j].result.value.id # constructed[k].result.value.id
    /\ \A c \in DOMAIN registrations : registrations[c] \in ClassNames

C2_Witness ==
    /\ Returned
    /\ allocAtCall > 0
    /\ outcome.value.cls = "TaskManagerService"
    /\ Cardinality(InstanceIds(outcome.value)) = 2

\* C3: the registration map holds, for every abstraction, exactly the class of
\* the last register that succeeded for it, so that once T2 has replaced T1
\* every resolve of the abstraction, outermost or nested, constructs T2.
C3_LastRegistrationWins ==
    /\ DOMAIN registrations = { C \in Abstractions : registered[C] # Unregistered }
    /\ \A C \in DOMAIN registrations : registrations[C] = registered[C]
    /\ \A k \in 1..Len(stack) :
           stack[k].abstraction \in DOMAIN registrations =>
               stack[k].concrete_class = registered[stack[k].abstraction]
    /\ \A C \in Abstractions :
           (Returned /\ lastCall.abstraction = C /\ overwritten[C]) =>
               outcome.value.cls = registered[C]

C3_Witness ==
    /\ Returned
    /\ lastCall.abstraction = "ITaskRepository"
    /\ overwritten["ITaskRepository"]
    /\ outcome.value.cls = "InMemoryTaskRepository"

\* C4 (as claimed): a register of a class that does not implement every
\* operation of the contract raises the configuration error, and every entry
\* of the registration map satisfies its contract.
C4_RegistrationsSatisfyContract ==
    /\ \A C \in DOMAIN registrations : Satisfies(registrations[C], C)
    /\ (/\ lastCall.op = "register"
        /\ LoadClass(lastCall.path).ok
        /\ ~Satisfies(LoadClass(lastCall.path).cls, lastCall.abstraction)) =>
           /\ outcome.kind = "raise"
           /\ outcome.exc.type = "ValueError"

\* C5: resolve of an abstract type that has no entry in the registration map
\* raises the unresolved-contract error at once: no call of resolve ever gets
\* past its head with an abstract class, and nothing is constructed.
C5_UnresolvedContract ==
    /\ \A k \in 1..Len(stack) : ~isabstract(stack[k].concrete_class)
    /\ (/\ lastCall.op = "resolve"
        /\ isabstract(lastCall.abstraction)
        /\ lastCall.abstraction \notin DOMAIN registrations) =>
           /\ outcome = Raise(Exception("ValueError", UnresolvedMsg(lastCall.abstraction)))
           /\ Idle
           /\ constructed = << >>
           /\ allocated = allocAtCall

C5_Witness ==
    /\ Raised
    /\ lastCall.abstraction = "ITaskRepository"
    /\ "ITaskRepository" \notin DOMAIN registrations
    /\ registered["CsvTaskRepository"] # Unregistered

\* The constructor can be called without arguments: every parameter but self
\* is *args, **kwargs or has a default.
CallableWithoutArguments(c) ==
    \A k \in 1..Len(ClassTable[c].init) :
        LET param == ClassTable[c].init[k]
        IN  \/ param.name = "self"
            \/ param.kind \in {"VAR_POSITIONAL", "VAR_KEYWORD"}
            \/ HasDefault(param)

ConstructorRaises(c) == ClassTable[c].ctor \notin {"store", "csv", "service"}

\* C6 (as claimed): with nothing registered, resolve of a concrete class whose
\* constructor can be called without arguments (and does not itself raise)
\* returns an instance of that class.
C6_DefaultConstructible ==
    (/\ ResolveDone
     /\ DOMAIN registrations = {}
     /\ ~isabstract(lastCall.abstraction)
     /\ CallableWithoutArguments(lastCall.abstraction)
     /\ ~ConstructorRaises(lastCall.abstraction)) =>
        /\ outcome.kind = "return"
        /\ outcome.value.cls = lastCall.abstraction

\* The class a finished or pending outermost resolve constructs.
RequestedClass == Lookup(registrations, lastCall.abstraction)

\* The parameter is resolved through the container and its declared type is
\* abstract and has no entry in the registration map.
NeedsUnregisteredContract(param) ==
    /\ IsInjected(param)
    /\ isabstract(param.annotation)
    /\ param.annotation \notin DOMAIN registrations

\* Every parameter before the k-th is self.
FirstDependency(c, k) == \A j \in 1..(k - 1) : ClassTable[c].init[j].name = "self"

Warned == { warnings[k] : k \in 1..Len(warnings) }

ParamNamed(c, name) ==
    LET k == CHOOSE k \in 1..Len(ClassTable[c].init) : ClassTable[c].init[k].name = name
    IN  ClassTable[c].init[k]

\* C8: resolve of a type T whose one dependency p has a default v and a
\* declared type that is abstract and unregistered returns an instance of T
\* built with p = v and logs the warning for p and T; and wherever a
\* parameter resolved through the container is bound to something else than
\* an instance, it is bound to its default and the warning has been logged.
C8_OptionalDependencyFallback ==
    /\ \A f \in 1..Len(stack) : \A d \in 1..Len(stack[f].dependencies) :
           LET entry == stack[f].dependencies[d]
               p == ParamNamed(stack[f].concrete_class, entry[1])
           IN  (IsInjected(p) /\ entry[2].kind # "instance") =>
                   /\ entry[2] = p.default
                   /\ << p.name, stack[f].concrete_class >> \in Warned
    /\ ResolveDone =>
         \A k \in 1..Len(ClassTable[RequestedClass].init) :
             LET p == ClassTable[RequestedClass].init[k]
             IN  (/\ ~isabstract(RequestedClass)
                  /\ NeedsUnregisteredContract(p)
                  /\ HasDefault(p)
                  /\ FirstDependency(RequestedClass, k)
                  /\ k = Len(ClassTable[RequestedClass].init)
                  /\ ClassTable[RequestedClass].ctor = "store") =>
                     /\ outcome.kind = "return"
                     /\ outcome.value.cls = RequestedClass
                     /\ outcome.value.attrs = << << p.name, p.default >> >>
                     /\ warnings = << << p.name, RequestedClass >> >>

C8_Witness ==
    /\ Returned
    /\ lastCall.abstraction = "OptionalRepositoryService"
    /\ "ITaskRepository" \notin DOMAIN registrations
    /\ outcome.value.attrs = << << "task_repository", NoneValue >> >>
    /\ warnings = << << "task_repository", "OptionalRepositoryService" >> >>

\* C9 (as claimed): when a constructor invoked during a resolve raised, the
\* resolve raises that very exception.
C9_ConstructionFailureUnchanged ==
    ResolveDone =>
        \A k \in 1..Len(constructed) :
            constructed[k].result.kind = "raise" => outcome = constructed[k].result

\* C10 (as claimed): with ITaskRepository registered to CsvTaskRepository,
\* resolve(TaskManagerService) returns a TaskManagerService whose repository
\* is a CsvTaskRepository created by this call, on the sample file.
C10_EndToEnd ==
    (/\ ResolveDone
     /\ lastCall.abstraction = "TaskManagerService"
     /\ registered["ITaskRepository"] = "CsvTaskRepository") =>
        /\ outcome.kind = "return"
        /\ outcome.value.cls = "TaskManagerService"
        /\ LET repository == Dependency(outcome.value.attrs, "_task_repository")
           IN  /\ repository.kind = "instance"
               /\ repository.cls = "CsvTaskRepository"
               /\ repository.id \in (allocAtCall + 1)..allocated
               /\ Dependency(repository.attrs, "file_path") = PathValue(SampleDataFile)


\* ---------------------------------------------------------------------- C11

\* C11: while resolve is pending the process has not exited and no
\* application logic has run (the container never ends the process); once
\* run_application is past a resolve that raised, the process has exited with
\* a non-zero status, the error is the one logged as critical, and no call
\* was made on the service.
C11_StartupFailureExits ==
    /\ app.pc = "resolving" =>
          /\ ~app.exited
          /\ app.service_calls = << >>
          /\ app.critical = << >>
    /\ (/\ app.pc \in {"resolved", "exited", "crashed", "finished"}
        /\ lastCall.op = "resolve"
        /\ outcome.kind = "raise") =>
          /\ app.pc = "exited"
          /\ app.exited
          /\ app.exit_status # 0
          /\ app.critical = << outcome.exc >>
          /\ app.service_calls = << >>
          /\ app.loaded = "none"

\* The process has exited on an error of resolve that is not a ValueError.
C11_Witness ==
    /\ app.pc = "exited"
    /\ outcome.kind = "raise"
    /\ outcome.exc.type = "OSError"

\* ---------------------------------------------------------------------- C12

\* The tasks a file stores: those get_all_tasks reads from it; a file that
\* does not exist stores none.
StoredTasks(file) ==
    IF file.exists THEN get_all_tasks(file).value ELSE << >>

\* The positions of the stored tasks with the id.
StoredWithId(file, task_id) ==
    {k \in 1..Len(StoredTasks(file)) : StoredTasks(file)[k].id = task_id}

LastCallGetTaskById == repo.kind = "csv" /\ repo.call.op = "get_task_by_id"

C13_ReadOnly ==
    repo.kind = "csv" =>
        /\ repo.call.op \in {"add_task", "update_task", "delete_task"} =>
              /\ repo.result.kind = "raise"
              /\ repo.result.exc.type = "NotImplementedError"
        /\ get_all_tasks(repo.file) = get_all_tasks(repo.initial)
        /\ repo.file = repo.initial

\* add_task was called on a repository whose file stores tasks.
C13_Witness ==
    /\ repo.kind = "csv"
    /\ repo.call.op = "add_task"
    /\ StoredTasks(repo.file) # << >>

\* ---------------------------------------------------------------------- C14

\* The parameter has no declared type.
Untyped(param) == param.name # "self" /\ param.annotation = EmptyAnnotation

\* C14: no pending resolve is inside a recursive call for a parameter without
\* a declared type, and wherever such a parameter is bound it is bound to its
\* default; resolve of a type whose first dependency has neither a declared
\* type nor a default raises the ValueError that names the parameter and the
\* type, and the type was not instantiated; an instance that resolve returns
\* holds the default of each of its parameters without a declared type.
C14_UntypedParameters ==
    /\ \A k \in 1..Len(stack) :
          LET frame == stack[k]
              params == ClassTable[frame.concrete_class].init
          IN  /\ frame.awaiting => ~Untyped(params[frame.i])
              /\ \A j \in 1..Len(frame.dependencies) :
                    LET param == ParamNamed(frame.concrete_class, frame.dependencies[j][1])
                    IN  Untyped(param) =>
                            /\ param.default # EmptyDefault
                            /\ frame.dependencies[j][2] = param.default
    /\ (ResolveDone /\ ~isabstract(RequestedClass)) =>
          \A k \in 1..Len(ClassTable[RequestedClass].init) :
              LET param == ClassTable[RequestedClass].init[k]
              IN  (/\ FirstDependency(RequestedClass, k)
                   /\ Untyped(param)
                   /\ param.default = EmptyDefault) =>
                      /\ outcome = Raise(Exception("ValueError",
                             << "Cannot resolve dependency", param.name, "for",
                                RequestedClass, "Missing type hint or default value" >>))
                      /\ RequestedClass \notin ConstructedClasses
    /\ (Returned /\ ClassTable[outcome.value.cls].ctor = "store") =>
          \A k \in 1..Len(ClassTable[outcome.value.cls].init) :
              LET param == ClassTable[outcome.value.cls].init[k]
              IN  Untyped(param) =>
                      Dependency(outcome.value.attrs, param.name) = param.default

\* resolve(UntypedService) has raised while ITaskRepository, the name of its
\* parameter, is registered.
C14_Witness ==
    /\ Raised
    /\ lastCall.abstraction = "UntypedService"
    /\ "ITaskRepository" \in DOMAIN registrations
    /\ ~isabstract(registrations["ITaskRepository"])

\* ---------------------------------------------------------------------- C15

\* The parameters of c declared before the i-th, self left out.
DeclaredBefore(c, i) ==
    SelectSeq(SubSeq(ClassTable[c].init, 1, i - 1), LAMBDA param : param.name # "self")

\* The classes with two or more dependencies, each with a declared type and
\* without default.
SeveralDependencies ==
    {c \in ClassNames :
        LET params == DeclaredBefore(c, Len(ClassTable[c].init) + 1)
        IN  /\ Len(params) >= 2
            /\ \A k \in 1..Len(params) :
                  /\ params[k].kind = "POSITIONAL_OR_KEYWORD"
                  /\ params[k].annotation # EmptyAnnotation
                  /\ params[k].default = EmptyDefault}

\* The class that stands for the declared type of the parameter.
DependencyClass(param) ==
    IF param.annotation \in DOMAIN registrations
    THEN registrations[param.annotation]
    ELSE param.annotation

\* The dependency of a parameter whose class has no dependencies of its own
\* cannot be resolved: the class is abstract or its constructor raises.
DependencyFails(param) ==
    \/ isabstract(DependencyClass(param))
    \/ ClassTable[DependencyClass(param)].ctor \notin {"store", "csv", "service"}

\* The classes whose constructor has returned since the call began, in order.
Built ==
    LET done == SelectSeq(constructed, LAMBDA entry : entry.result.kind = "return")
    IN  [k \in 1..Len(done) |-> done[k].cls]

C16_MapChangesOnlyByRegister ==
    [][ /\ registrations' # registrations =>
              /\ Idle /\ Idle'
              /\ lastCall'.op = "register"
              /\ outcome'.kind = "return"
              /\ DOMAIN registrations' = DOMAIN registrations \cup {lastCall'.abstraction}
              /\ registrations'[lastCall'.abstraction]
                    = lastCall'.path[Len(lastCall'.path)]
              /\ \A c \in DOMAIN registrations \ {lastCall'.abstraction} :
                    registrations'[c] = registrations[c]
        /\ (lastCall'.op = "register" /\ outcome'.kind = "raise") =>
              registrations' = registrations
        /\ lastCall'.op = "resolve" => registrations' = registrations
      ]_vars

\* A register for a contract that has a mapping has raised, for a class that
\* loads and is not a subclass of the contract.
C16_Witness ==
    /\ lastCall.op = "register"
    /\ outcome.kind = "raise"
    /\ lastCall.abstraction \in DOMAIN registrations
    /\ LoadClass(lastCall.path).ok

\* ---------------------------------------------------------------------- C18

\* What the registration map holds for a type, after one lookup.
Registered(abstraction) ==
    IF abstraction \in DOMAIN registrations
    THEN registrations[abstraction]
    ELSE abstraction

\* C18: every pending resolve, the outermost and the recursive ones alike,
\* works on the class the map holds for the requested type, looked up once
\* and not followed further; what resolve returns is an instance of that
\* class, and each instance injected into it is an instance of the class the
\* map holds for the declared type of its parameter.
C18_SingleStepLookup ==
    /\ \A k \in 1..Len(stack) :
          stack[k].concrete_class = Registered(stack[k].abstraction)
    /\ Returned =>
          /\ outcome.value.cls = Registered(lastCall.abstraction)
          /\ ClassTable[outcome.value.cls].ctor = "service" =>
                Dependency(outcome.value.attrs, "_task_repository").cls
                    = Registered("ITaskRepository")
          /\ ClassTable[outcome.value.cls].ctor = "store" =>
                \A k \in 1..Len(outcome.value.attrs) :
                    LET name == outcome.value.attrs[k][1]
                        value == outcome.value.attrs[k][2]
                    IN  value.kind = "instance" =>
                            value.cls = Registered(
                                ParamNamed(outcome.value.cls, name).annotation)

\* ITaskRepository is registered to CsvTaskRepository, which is itself
\* registered to CachedCsvTaskRepository; resolve(ITaskRepository) has
\* returned.
C18_Witness ==
    /\ Returned
    /\ lastCall.abstraction = "ITaskRepository"
    /\ DOMAIN registrations = {"ITaskRepository", "CsvTaskRepository"}
    /\ registrations["ITaskRepository"] = "CsvTaskRepository"
    /\ registrations["CsvTaskRepository"] = "CachedCsvTaskRepository"

\* ---------------------------------------------------------------------- C17

\* The classes resolve of a class asks for: those the map holds for the
\* declared types of its constructor parameters.
Needs(c) ==
    IF isabstract(c) THEN {}
    ELSE {Registered(ClassTable[c].init[k].annotation) :
             k \in {j \in 1..Len(ClassTable[c].init) : IsInjected(ClassTable[c].init[j])}}

RECURSIVE ReachableIn(_, _)
ReachableIn(classes, n) ==
    IF n = 0 THEN classes
    ELSE ReachableIn(classes \cup UNION {Needs(c) : c \in classes}, n - 1)

\* The request reaches a class that needs itself, directly or not.
ReachesCycle(abstraction) ==
    \E c \in ReachableIn({Registered(abstraction)}, Cardinality(ClassNames)) :
        c \in ReachableIn(Needs(c), Cardinality(ClassNames))

ResolvePending == lastCall.op = "resolve" /\ ~Idle

\* C17: a resolve whose request reaches a cycle builds nothing and neither
\* returns nor raises an error of the container: while no error is in flight
\* its pending calls pile up to the recursion limit, whatever the limit, and
\* all that ends it is the RecursionError of the interpreter, defaults on the
\* cycle notwithstanding.
\* A resolve whose request reaches no cycle never meets the limit, and
\* returns or raises.
C17_NoCycleDetection ==
    /\ [](lastCall.op = "resolve" =>
            IF ReachesCycle(lastCall.abstraction)
            THEN /\ constructed = << >>
                 /\ warnings = << >>
                 /\ ResolveDone =>
                       /\ outcome.kind = "raise"
                       /\ outcome.exc.type = "RecursionError"
            ELSE /\ Len(stack) < MaxDepth
                 /\ outcome.kind = "raise" => outcome.exc.type # "RecursionError")
    /\ (ResolvePending /\ outcome.kind = "none" /\ ReachesCycle(lastCall.abstraction))
          ~> (Len(stack) = MaxDepth)
    /\ (ResolvePending /\ ~ReachesCycle(lastCall.abstraction)) ~> ResolveDone

\* resolve(Egg), whose parameter on the cycle has a default, has ended in the
\* RecursionError.
C17_Witness ==
    /\ Raised
    /\ lastCall.abstraction = "Egg"
    /\ outcome.exc.type = "RecursionError"

====
